---- MODULE Spec2Model ----
(***************************************************************************)
(* ShrinkPool (src/src/lib.rs): a thread pool that spawns worker threads   *)
(* on demand up to pool_size and terminates each worker as soon as it      *)
(* finds the task queue empty.  Caller threads run execute; worker threads *)
(* run the closure of thread_spawn; a PanicCatcher respawns a worker when  *)
(* a task panics.  SyncThread is the pool with pool_size = 1.              *)
(***************************************************************************)
EXTENDS Integers, Sequences, FiniteSets, Bags

VARIABLES
    pool_size,            \* ShrinkPool.pool_size (the argument of new until the
                          \* pool is constructed)
    handle,               \* the ShrinkPool value: "unbuilt", "live", "failed"
                          \* (new panicked) or "dropped"
    poisoned,             \* the poison flag of the Mutex
    num_running_threads,  \* ShrinkPoolInner.num_running_threads
    tasks,                \* ShrinkPoolInner.tasks (VecDeque), front first
    lock,                 \* holder of the Mutex: NoThread or a thread
    cpc,                  \* execute call -> position inside execute; the call
                          \* that hands over task f is call f, each call runs on
                          \* a caller thread of its own or after an earlier call
    workers,              \* the bag of live worker threads; each is a record of
                          \* its position pc in the loop of thread_spawn, the
                          \* task f it popped and its PanicCatcher.is_working
    panics,               \* the tasks whose body panics (input)
    nextTask,             \* the next task handed to execute
    pushed,               \* history: tasks in push_back order
    popped,               \* history: tasks in pop_front order
    finished,             \* history: tasks in the order they returned or panicked
    runs,                 \* history: task -> number of times f() was invoked
    counter               \* the AtomicUsize the tasks of the tests increment

vars == <<pool_size, handle, poisoned, num_running_threads, tasks, lock, cpc, workers,
          panics, nextTask, pushed, popped, finished, runs, counter>>

\* ---- bounds ----
MaxTasks == 3
MaxPoolSize == 2

Tasks == 1..MaxTasks
Callers == Tasks
NoTask == 0
NoThread == <<>>
Caller(c) == <<"caller", c>>
AWorker == <<"worker">>
Workers == BagToSet(workers)

\* ---- helpers over sequences ----
SeqToSet(s) == {s[i] : i \in DOMAIN s}
IsPrefix(s, t) == Len(s) <= Len(t) /\ \A i \in DOMAIN s : s[i] = t[i]
IndexOf(s, x) == CHOOSE i \in DOMAIN s : s[i] = x

\* ShrinkPool::new / SyncThread::new: no thread runs, the queue is empty.
Init ==
    /\ pool_size \in 1..MaxPoolSize
    /\ handle = "live"
    /\ poisoned = FALSE
    /\ num_running_threads = 0
    /\ tasks = <<>>
    /\ lock = NoThread
    /\ cpc = [c \in Callers |-> "new"]
    /\ workers = EmptyBag
    /\ panics \in SUBSET Tasks
    /\ nextTask = 1
    /\ pushed = <<>>
    /\ popped = <<>>
    /\ finished = <<>>
    /\ runs = [t \in Tasks |-> 0]
    /\ counter = 0

\* Mutation: the task is put at the front of the queue.
push_front(q, f) == <<f>> \o q

\* VecDeque::push_back, line 133.
push_back(q, f) == Append(q, f)

\* Mutation: the front is read but not removed.
pop_front_peek(q) == <<Head(q), q>>

\* Mutation: the newest task is taken instead of the oldest.
pop_back(q) == <<q[Len(q)], SubSeq(q, 1, Len(q) - 1)>>

\* VecDeque::pop_front on a non-empty queue, line 153: the front element and
\* the queue that remains.
pop_front(q) == <<Head(q), Tail(q)>>

\* Mutation: the slot is counted twice.
TakeSlotTwice(n) == n + 2

\* execute, line 135: num_running_threads += 1.
TakeSlot(n) == n + 1

\* Mutation: the exiting worker forgets to give its slot back.
ReleaseSlotKeep(n) == n

\* worker loop, line 156: num_running_threads -= 1.
ReleaseSlot(n) == n - 1

\* Mutation: the catcher is not disarmed after a normal return.
StillArmed == TRUE

\* worker loop, line 170: catcher.is_working = false.
Disarmed == FALSE

\* One worker thread w of the bag ws moves to the local state v.
Moved(ws, w, v) == (ws (-) SetToBag({w})) (+) SetToBag({v})

\* thread_spawn: a new OS thread that starts at the top of the loop.
thread_spawn(ws) == ws (+) SetToBag({[pc |-> "lock", f |-> NoTask, is_working |-> FALSE]})

\* Mutation: the catcher never respawns.
PanicCatcher_drop_never(armed, ws) == ws

\* PanicCatcher::drop: respawn a worker iff the catcher is still armed.
PanicCatcher_drop(armed, ws) == IF armed THEN thread_spawn(ws) ELSE ws

\* Mutation: the poison flag is ignored (the guard is taken out of the error).
LockIgnoresPoison == TRUE

\* Mutex::lock().expect("mutex is poisoned"), lines 128 and 152: the guard
\* is obtained only when the mutex is not poisoned.
LockOk == ~poisoned

\* Mutation: the worker threads do not own a share of the state, it lives
\* only as long as the handle.
StrongCountHandleOnly == IF handle = "live" THEN 1 ELSE 0

\* Arc strong count of the shared state, lines 95, 142, 165, 192: the handle
\* and every worker thread hold one clone each.
StrongCount == (IF handle = "live" THEN 1 ELSE 0) + BagCardinality(workers)

\* Mutation: the worker keeps the guard while it runs the task.
WorkerGuardKept == AWorker

\* worker loop, line 160: the block ends and the MutexGuard is dropped.
WorkerGuardDropped == NoThread

\* execute, line 128: a caller enters execute(f) and acquires the mutex.
\* Calls are numbered in the order in which they get the lock.
execute_lock(c) ==
    /\ handle = "live"
    /\ cpc[c] = "new"
    /\ c = nextTask
    /\ lock = NoThread
    /\ LockOk
    /\ lock' = Caller(c)
    /\ nextTask' = nextTask + 1
    /\ cpc' = [cpc EXCEPT ![c] = "push"]
    /\ UNCHANGED <<pool_size, handle, poisoned, num_running_threads, tasks,
                   workers, panics,
                   pushed, popped, finished, runs, counter>>

\* execute, line 133: inner.tasks.push_back(Box::new(f)).
execute_push(c) ==
    /\ cpc[c] = "push"
    /\ lock = Caller(c)
    /\ tasks' = push_back(tasks, c)
    /\ pushed' = Append(pushed, c)
    /\ cpc' = [cpc EXCEPT ![c] = "check"]
    /\ UNCHANGED <<pool_size, handle, poisoned, num_running_threads, lock,
                   workers, panics,
                   nextTask, popped, finished, runs, counter>>

\* Mutation: off by one, the last slot is never handed out.
HasRoomOffByOne == num_running_threads + 1 < pool_size

\* Mutation: off by one, one slot too many is handed out.
HasRoomInclusive == num_running_threads <= pool_size

\* execute, line 134: is there room for one more worker?
HasRoom == num_running_threads < pool_size

\* execute, lines 134-140: take a slot if there is room, then drop the guard.
execute_check(c) ==
    /\ cpc[c] = "check"
    /\ lock = Caller(c)
    /\ IF HasRoom
          THEN /\ num_running_threads' = TakeSlot(num_running_threads)
               /\ cpc' = [cpc EXCEPT ![c] = "spawn"]
          ELSE /\ num_running_threads' = num_running_threads
               /\ cpc' = [cpc EXCEPT ![c] = "returned"]
    /\ lock' = NoThread
    /\ UNCHANGED <<pool_size, handle, poisoned, tasks, workers, panics,
                   nextTask, pushed, popped,
                   finished, runs, counter>>

\* execute, lines 141-144: spawn the worker outside the lock and return.
execute_spawn(c) ==
    /\ cpc[c] = "spawn"
    /\ workers' = thread_spawn(workers)
    /\ cpc' = [cpc EXCEPT ![c] = "returned"]
    /\ UNCHANGED <<pool_size, handle, poisoned, num_running_threads, tasks,
                   lock, panics, nextTask,
                   pushed, popped, finished, runs, counter>>

\* worker loop, line 152: cloned.lock().
worker_lock(w) ==
    /\ w.pc = "lock"
    /\ StrongCount > 0
    /\ lock = NoThread
    /\ LockOk
    /\ lock' = AWorker
    /\ workers' = Moved(workers, w, [w EXCEPT !.pc = "pop"])
    /\ UNCHANGED <<pool_size, handle, poisoned, num_running_threads, tasks,
                   cpc, panics,
                   nextTask, pushed, popped, finished, runs, counter>>

\* worker loop, lines 153-160: pop_front; on None give the slot back and break.
worker_pop(w) ==
    /\ w.pc = "pop"
    /\ lock = AWorker
    /\ IF tasks # <<>>
          THEN /\ workers' = Moved(workers, w, [w EXCEPT !.pc = "arm", !.f = pop_front(tasks)[1]])
               /\ tasks' = pop_front(tasks)[2]
               /\ popped' = Append(popped, pop_front(tasks)[1])
               /\ num_running_threads' = num_running_threads
          ELSE /\ num_running_threads' = ReleaseSlot(num_running_threads)
               /\ workers' = Moved(workers, w, [w EXCEPT !.pc = "exiting"])
               /\ UNCHANGED <<tasks, popped>>
    /\ lock' = WorkerGuardDropped
    /\ UNCHANGED <<pool_size, handle, poisoned, cpc, panics, nextTask, pushed,
                   finished, runs,
                   counter>>

\* worker loop, lines 164-169: arm the PanicCatcher and invoke f().
worker_call(w) ==
    /\ w.pc = "arm"
    /\ workers' = Moved(workers, w, [w EXCEPT !.pc = "running", !.is_working = TRUE])
    /\ runs' = [runs EXCEPT ![w.f] = @ + 1]
    /\ UNCHANGED <<pool_size, handle, poisoned, num_running_threads, tasks,
                   lock, cpc, panics,
                   nextTask, pushed, popped, finished, counter>>

\* worker loop, lines 169-171: f() returns, the catcher is disarmed and
\* dropped at the end of the loop body, and the loop starts over.
task_return(w) ==
    /\ w.pc = "running"
    /\ w.f \notin panics
    /\ counter' = counter + 1
    /\ finished' = Append(finished, w.f)
    /\ workers' = PanicCatcher_drop(Disarmed,
                      Moved(workers, w, [pc |-> "lock", f |-> NoTask, is_working |-> FALSE]))
    /\ UNCHANGED <<pool_size, handle, poisoned, num_running_threads, tasks,
                   lock, cpc, panics,
                   nextTask, pushed, popped, runs>>

\* worker loop, line 169: f() panics; the thread starts unwinding.
task_panic(w) ==
    /\ w.pc = "running"
    /\ w.f \in panics
    /\ finished' = Append(finished, w.f)
    /\ workers' = Moved(workers, w, [w EXCEPT !.pc = "unwind", !.f = NoTask])
    /\ UNCHANGED <<pool_size, handle, poisoned, num_running_threads, tasks,
                   lock, cpc, panics,
                   nextTask, pushed, popped, runs, counter>>

\* PanicCatcher::drop during unwinding, lines 179-195.
catcher_drop(w) ==
    /\ w.pc = "unwind"
    /\ workers' = PanicCatcher_drop(w.is_working,
                      Moved(workers, w, [w EXCEPT !.pc = "exiting"]))
    /\ UNCHANGED <<pool_size, handle, poisoned, num_running_threads, tasks,
                   lock, cpc, panics,
                   nextTask, pushed, popped, finished, runs, counter>>

\* The closure of thread_spawn ends (after break or after unwinding): the
\* thread is gone.
thread_exit(w) ==
    /\ w.pc = "exiting"
    /\ workers' = workers (-) SetToBag({w})
    /\ UNCHANGED <<pool_size, handle, poisoned, num_running_threads, tasks,
                   lock, cpc, panics,
                   nextTask, pushed, popped, finished, runs, counter>>

CallerStep(c) == execute_push(c) \/ execute_check(c) \/ execute_spawn(c)

WorkerStep(w) ==
    \/ worker_lock(w) \/ worker_pop(w) \/ worker_call(w)
    \/ task_return(w) \/ task_panic(w) \/ catcher_drop(w) \/ thread_exit(w)

Next ==
    \/ \E c \in Callers : execute_lock(c)
    \/ \E c \in Callers : execute_push(c)
    \/ \E c \in Callers : execute_check(c)
    \/ \E c \in Callers : execute_spawn(c)
    \/ \E w \in Workers : worker_lock(w)
    \/ \E w \in Workers : worker_pop(w)
    \/ \E w \in Workers : worker_call(w)
    \/ \E w \in Workers : task_return(w)
    \/ \E w \in Workers : task_panic(w)
    \/ \E w \in Workers : catcher_drop(w)
    \/ \E w \in Workers : thread_exit(w)

Spec == Init /\ [][Next]_vars

\* The owner drops the ShrinkPool (no Drop impl: only its Arc clone goes
\* away).  execute borrows the pool, so no call is in progress.
drop_handle ==
    /\ handle = "live"
    /\ \A c \in Callers : cpc[c] \notin {"push", "check", "spawn"}
    /\ handle' = "dropped"
    /\ UNCHANGED <<pool_size, poisoned, num_running_threads, tasks, lock, cpc,
                   workers, panics, nextTask, pushed, popped, finished, runs,
                   counter>>

NextDrop == Next \/ drop_handle

\* execute, lines 130-133: push_back panics (out of memory) while the caller
\* holds the guard; unwinding drops the guard and poisons the mutex.  The
\* task is not enqueued.
execute_push_panic(c) ==
    /\ cpc[c] = "push"
    /\ lock = Caller(c)
    /\ poisoned' = TRUE
    /\ lock' = NoThread
    /\ cpc' = [cpc EXCEPT ![c] = "panicked"]
    /\ UNCHANGED <<pool_size, handle, num_running_threads, tasks, workers, panics,
                   nextTask, pushed, popped, finished, runs, counter>>

\* execute, line 128: lock() returns the poison error and expect panics in
\* the caller's thread; the task is dropped with the call.
execute_lock_poisoned(c) ==
    /\ handle = "live"
    /\ cpc[c] = "new"
    /\ c = nextTask
    /\ lock = NoThread
    /\ ~LockOk
    /\ nextTask' = nextTask + 1
    /\ cpc' = [cpc EXCEPT ![c] = "panicked"]
    /\ UNCHANGED <<pool_size, handle, poisoned, num_running_threads, tasks, lock,
                   workers, panics, pushed, popped, finished, runs, counter>>

\* Mutation: the PanicCatcher is constructed before lock() and is armed.
CatcherAtLockArmed == TRUE

\* worker loop, lines 150-164: the PanicCatcher is constructed after the
\* block that locks, so no armed catcher exists while the worker locks.
CatcherAtLock == FALSE

\* worker loop, line 152: lock() returns the poison error and expect panics
\* in the worker thread, which unwinds and ends.
worker_lock_poisoned(w) ==
    /\ w.pc = "lock"
    /\ StrongCount > 0
    /\ lock = NoThread
    /\ ~LockOk
    /\ workers' = PanicCatcher_drop(CatcherAtLock,
                      Moved(workers, w, [w EXCEPT !.pc = "exiting"]))
    /\ UNCHANGED <<pool_size, handle, poisoned, num_running_threads, tasks, lock,
                   cpc, panics, nextTask, pushed, popped, finished, runs, counter>>

\* Before construction: the caller has chosen the argument of new.
InitNew ==
    /\ pool_size \in 0..MaxPoolSize
    /\ handle = "unbuilt"
    /\ poisoned = FALSE
    /\ num_running_threads = 0
    /\ tasks = <<>>
    /\ lock = NoThread
    /\ cpc = [c \in Callers |-> "new"]
    /\ workers = EmptyBag
    /\ panics \in SUBSET Tasks
    /\ nextTask = 1
    /\ pushed = <<>>
    /\ popped = <<>>
    /\ finished = <<>>
    /\ runs = [t \in Tasks |-> 0]
    /\ counter = 0

\* Mutation: the size check is missing.
AnySize(n) == TRUE

\* ShrinkPool::new, line 108: pool_size == 0 panics.
ValidSize(n) == n # 0

\* ShrinkPool::new, lines 107-118: panic on 0, else an unlocked mutex around
\* a counter of 0 and an empty queue; no thread is spawned.
ShrinkPool_new ==
    /\ handle = "unbuilt"
    /\ IF ValidSize(pool_size)
          THEN /\ handle' = "live"
               /\ num_running_threads' = 0
               /\ tasks' = <<>>
               /\ lock' = NoThread
               /\ poisoned' = FALSE
          ELSE /\ handle' = "failed"
               /\ UNCHANGED <<num_running_threads, tasks, lock, poisoned>>
    /\ UNCHANGED <<pool_size, cpc, workers, panics, nextTask, pushed, popped,
                   finished, runs, counter>>

\* SyncThread::new, lines 221-225: ShrinkPool::new(1).
SyncThread_new ==
    /\ pool_size = 1
    /\ ShrinkPool_new

NextNew == ShrinkPool_new \/ SyncThread_new \/ Next

NewSpec == InitNew /\ [][NextNew]_vars

NextPoison ==
    \/ Next
    \/ \E c \in Callers : execute_push_panic(c)
    \/ \E c \in Callers : execute_lock_poisoned(c)
    \/ \E w \in Workers : worker_lock_poisoned(w)

PoisonSpec == Init /\ [][NextPoison]_vars

DropSpec == Init /\ [][NextDrop]_vars

\* Every thread that can take a step of execute or of the worker loop
\* eventually takes one (the OS schedules threads fairly); nothing forces a
\* caller to call execute.
Progress == (\E c \in Callers : CallerStep(c)) \/ (\E w \in Workers : WorkerStep(w))
FairSpec == Init /\ [][Next]_vars /\ WF_vars(Progress)
FairDropSpec == Init /\ [][NextDrop]_vars /\ WF_vars(Progress)

\* ---- vocabulary of the properties ----

\* execute was called with task t and has acquired the lock.
Submitted(t) == t < nextTask
\* The body of t returned normally.
Completed(t) == t \in SeqToSet(finished) /\ t \notin panics
\* The body of t was invoked once and has returned or panicked.
Ran(t) == t \in SeqToSet(finished) /\ runs[t] = 1
\* The workers whose local state satisfies a position in ps, with multiplicity.
NumAt(ps) == BagCardinality([w \in {x \in Workers : x.pc \in ps} |-> workers[w]])
\* Tasks claimed by a worker and not yet returned or panicked.
NumExecuting == NumAt({"arm", "running"})
Holds(t) == \E w \in Workers : w.f = t
NoCallerInExecute == \A c \in Callers : cpc[c] \in {"new", "returned"}
PoolIdle == num_running_threads = 0 /\ workers = EmptyBag

\* C1: when no task panics, every task handed to execute is eventually run
\* to completion, under fair scheduling of the threads: from some point on
\* every submitted task has completed (a submitted task stays submitted, so
\* this gives Submitted(t) ~> Completed(t) for each t).
C1_AllTasksRun ==
    <>[](panics = {} => \A t \in Tasks : Submitted(t) => Completed(t))

C1_Witness ==
    /\ panics = {}
    /\ Len(finished) = MaxTasks
    /\ \A t \in Tasks : Completed(t)

\* C2: no task is started more than once: each task is popped at most once,
\* invoked at most once, and once it returned or panicked it is neither in
\* the queue nor held by a worker again.
C2_AtMostOnce ==
    /\ \A t \in Tasks : runs[t] <= 1
    /\ \A i, j \in DOMAIN popped : popped[i] = popped[j] => i = j
    /\ \A i, j \in DOMAIN finished : finished[i] = finished[j] => i = j
    /\ \A t \in SeqToSet(finished) : t \notin SeqToSet(tasks) /\ ~Holds(t)
    /\ \A t \in SeqToSet(popped) : t \notin SeqToSet(tasks)

C2_Witness ==
    /\ \E i \in DOMAIN finished : finished[i] \in panics /\ runs[finished[i]] = 1
    /\ Len(finished) = MaxTasks
    /\ workers = EmptyBag

\* C3: the number of tasks executing at the same time never exceeds
\* pool_size, also when tasks panic and replacement workers are spawned.
C3_ExecutingBound == NumExecuting <= pool_size

C3_Witness ==
    /\ pool_size = 2
    /\ NumAt({"running"}) = 2
    /\ \E i \in DOMAIN finished : finished[i] \in panics

\* C4: whenever the lock is not held, 0 <= num_running_threads <= pool_size.
C4_CounterRange ==
    lock = NoThread => (0 <= num_running_threads /\ num_running_threads <= pool_size)

\* Two execute calls raced for the last slot: one took it and is about to
\* spawn, the other has returned without spawning.
C4_Witness ==
    /\ lock = NoThread
    /\ num_running_threads = pool_size
    /\ \E c \in Callers : cpc[c] = "spawn" /\ c < Len(pushed)
    /\ NumAt({"exiting"}) > 0

\* C5: self-healing: when some tasks panic, every other task handed to
\* execute is still eventually run to completion.
C5_SelfHealing ==
    <>[](panics # {} =>
            \A t \in Tasks : (Submitted(t) /\ t \notin panics) => Completed(t))

\* With a single slot, a task completed after an earlier task panicked.
C5_Witness ==
    /\ pool_size = 1
    /\ \E i, j \in DOMAIN finished :
          i < j /\ finished[i] \in panics /\ finished[j] \notin panics

\* C6: shrink: once no further execute call occurs the pool reaches the
\* state with num_running_threads = 0 and no live worker thread and stays in
\* it; it leaves that state only by a new execute call.
C6_Shrink ==
    /\ <>[](PoolIdle /\ NoCallerInExecute)
    /\ [][(PoolIdle /\ NoCallerInExecute) =>
            (PoolIdle' \/ ~NoCallerInExecute')]_vars

C6_Witness ==
    /\ PoolIdle
    /\ NoCallerInExecute
    /\ Len(finished) = MaxTasks
    /\ \E i \in DOMAIN finished : finished[i] \in panics

C8_SyncOrder ==
    pool_size = 1 =>
        /\ IsPrefix(finished, pushed)
        /\ NumExecuting <= 1
        /\ \A i \in DOMAIN pushed :
              runs[pushed[i]] > 0 => \A j \in 1..(i - 1) : pushed[j] \in SeqToSet(finished)

C8_Witness ==
    /\ pool_size = 1
    /\ finished = pushed
    /\ Len(finished) = MaxTasks
    /\ panics # {}
    /\ panics # Tasks

\* A first batch was drained completely (queue empty, every worker thread
\* gone, no other call in flight) and call c has entered execute: it holds
\* the lock, so nothing else can have moved.
DrainedAt(c) ==
    /\ cpc[c] = "push"
    /\ finished # <<>>
    /\ tasks = <<>>
    /\ workers = EmptyBag
    /\ \A d \in Callers \ {c} : cpc[d] \in {"new", "returned"}

\* C9: a pool that drained a first batch has shrunk to num_running_threads
\* = 0; an execute call on it takes a slot and spawns a worker, and its task
\* is eventually run exactly once.
C9_SpawnAfterShrink ==
    /\ [](\A c \in Callers : DrainedAt(c) => num_running_threads = 0)
    /\ \A t \in Tasks :
          DrainedAt(t) ~> (Ran(t) /\ (t \notin panics => Completed(t)))
    /\ [][\A c \in Callers :
            (cpc[c] = "check" /\ num_running_threads = 0 /\ cpc'[c] # "check")
                => (cpc'[c] = "spawn" /\ num_running_threads' = 1)]_vars

\* The execute call on the shrunk pool has taken the slot and is about to
\* spawn the only worker.
C9_Witness ==
    \E c \in Callers :
        /\ cpc[c] = "spawn"
        /\ finished # <<>>
        /\ tasks = <<c>>
        /\ num_running_threads = 1
        /\ workers = EmptyBag

\* ---- C11 ----

\* Every slot is taken by a worker that is inside a task body.
AllBusy == NumAt({"running"}) = pool_size

\* C11: no task body runs while its worker holds the lock, and execute and
\* the other workers do not wait for running tasks: when a worker holds the
\* lock it is the one between lock() and pop_front, and while all pool_size
\* workers are inside task bodies every step of execute and every lock()
\* of another worker that finds the mutex free can be taken.
C11_NoTaskUnderLock ==
    /\ lock = AWorker => NumAt({"pop"}) = 1
    /\ lock # AWorker => NumAt({"pop"}) = 0
    /\ AllBusy =>
          /\ \A c \in Callers : cpc[c] \in {"push", "check", "spawn"} => ENABLED CallerStep(c)
          /\ lock = NoThread =>
                /\ nextTask <= MaxTasks => ENABLED execute_lock(nextTask)
                /\ \A w \in Workers : w.pc = "lock" => ENABLED worker_lock(w)

\* Both workers of a pool of size 2 are inside task bodies while a further
\* execute call has gone through and its task waits in the queue.
C11_Witness ==
    /\ pool_size = 2
    /\ AllBusy
    /\ tasks # <<>>
    /\ cpc[MaxTasks] = "returned"
    /\ lock = NoThread

\* ---- C12 ----

\* C12: after the pool handle is dropped the workers keep draining: from
\* some point on every task enqueued before the drop has been run exactly
\* once (to completion unless it panics), and no worker is left.
C12_DrainAfterDrop ==
    <>[](handle = "dropped" =>
            /\ \A t \in Tasks : Submitted(t) => Ran(t)
            /\ \A t \in Tasks : (Submitted(t) /\ t \notin panics) => Completed(t)
            /\ tasks = <<>>
            /\ PoolIdle)

\* The handle is gone while the only worker runs a task that will panic and
\* another task waits behind it.
C12_Witness ==
    /\ handle = "dropped"
    /\ pool_size = 1
    /\ tasks # <<>>
    /\ \E w \in Workers : w.pc = "running" /\ w.f \in panics

\* ---- C13 ----

\* C13: the number of worker threads alive at the same time (spawned and
\* not yet exited) never exceeds pool_size.
C13_LiveThreadsBound == BagCardinality(workers) <= pool_size

\* ---- C14 ----

NumCalls(ps) == Cardinality({c \in Callers : cpc[c] \in ps})

\* C14: once the mutex is poisoned it stays poisoned and every later
\* operation fails: a call that enters execute panics without enqueuing,
\* changing the counter or spawning, and a worker that tries to lock panics
\* and ends without popping or running a task.
C14_PoisonIsFatal ==
    [][poisoned =>
        /\ poisoned'
        /\ tasks' = tasks /\ pushed' = pushed /\ popped' = popped
        /\ num_running_threads' = num_running_threads
        /\ \A c \in Callers :
              /\ (cpc[c] = "new" /\ cpc'[c] # "new") =>
                    (cpc'[c] = "panicked" /\ workers' = workers)
              /\ cpc'[c] \in {"push", "check"} => FALSE
              /\ cpc'[c] = "spawn" => cpc[c] = "spawn"
        /\ NumAt({"pop"})' = 0
        /\ NumAt({"lock"})' < NumAt({"lock"}) =>
              /\ NumAt({"exiting"})' = NumAt({"exiting"}) + 1
              /\ runs' = runs /\ finished' = finished]_vars

\* After the poisoning a later execute call panicked and the worker died at
\* lock(): a task is stranded in the queue and its slot is never given back.
C14_Witness ==
    /\ poisoned
    /\ NumCalls({"panicked"}) >= 2
    /\ tasks # <<>>
    /\ num_running_threads > 0
    /\ workers = EmptyBag

\* ---- C20 ----

\* Tasks already claimed whose panic can still make a catcher respawn.
ExecCredit == NumAt({"arm", "running", "unwind"})
\* The same plus the execute calls that took a slot and have yet to spawn.
SpawnCredit == ExecCredit + NumCalls({"spawn"})
Spawned == BagCardinality(workers') > BagCardinality(workers)

\* C20 as stated: after the poisoning every further worker is the
\* replacement of a task that was executing and then panicked.
C20_OnlyReplacements ==
    [][(poisoned /\ Spawned) => ExecCredit' < ExecCredit]_vars

\* C20, amended: a worker that fails at lock() ends without a replacement,
\* and after the poisoning every further worker uses up either a task that
\* was executing and panics or an execute call that had taken its slot
\* before the poisoning; nothing adds to that stock, so the respawning ends.
C20_FiniteRespawn ==
    [][poisoned =>
        /\ SpawnCredit' <= SpawnCredit
        /\ Spawned => SpawnCredit' < SpawnCredit
        /\ NumAt({"lock"})' < NumAt({"lock"}) => ~Spawned]_vars

\* The mutex is poisoned, a replacement spawned by a catcher after the
\* poisoning is about to fail at lock(), nothing is left to respawn it.
C20_Witness ==
    /\ poisoned
    /\ NumAt({"lock"}) = 1
    /\ NumAt({"exiting"}) >= 1
    /\ \E i \in DOMAIN finished : finished[i] \in panics
    /\ SpawnCredit = 0

\* ---- C15 ----

\* No pool object has been used: nothing is queued, counted or spawned.
Untouched ==
    /\ num_running_threads = 0
    /\ tasks = <<>>
    /\ workers = EmptyBag
    /\ nextTask = 1

\* C15: new with pool_size = 0 panics and yields no pool, on which nothing
\* can ever be executed; new with pool_size >= 1 (SyncThread::new: 1) yields
\* an idle pool of that size: counter 0, empty queue, no thread.
C15_Construction ==
    /\ [](handle = "failed" => (pool_size = 0 /\ Untouched))
    /\ [](handle = "unbuilt" => Untouched)
    /\ [](handle = "live" => pool_size >= 1)
    /\ [][(handle = "unbuilt" /\ handle' # "unbuilt") =>
            IF pool_size = 0
               THEN handle' = "failed"
               ELSE handle' = "live" /\ pool_size' = pool_size /\ Untouched'
                    /\ lock' = NoThread /\ ~poisoned']_vars

C15_Witness ==
    /\ handle = "failed"
    /\ pool_size = 0

\* ---- C16 ----

NumThreads == BagCardinality(workers)

\* C16: an execute call appends its task to the tail of the queue and, still
\* holding the lock, decides the spawn: with num_running_threads < pool_size
\* it adds exactly 1 to the counter and, after the lock is released, starts
\* exactly one worker; otherwise the counter is pool_size and stays, and no
\* worker is started.  A call that has returned starts nothing more.
C16_ExecuteEffect ==
    [][\A c \in Callers :
        /\ (cpc[c] = "push" /\ cpc'[c] # "push") =>
              /\ cpc'[c] = "check"
              /\ tasks' = Append(tasks, c)
              /\ lock = Caller(c) /\ lock' = Caller(c)
              /\ num_running_threads' = num_running_threads
              /\ workers' = workers
        /\ (cpc[c] = "check" /\ cpc'[c] # "check") =>
              /\ lock = Caller(c) /\ lock' = NoThread
              /\ tasks' = tasks
              /\ workers' = workers
              /\ IF num_running_threads < pool_size
                    THEN /\ num_running_threads' = num_running_threads + 1
                         /\ cpc'[c] = "spawn"
                    ELSE /\ num_running_threads = pool_size
                         /\ num_running_threads' = num_running_threads
                         /\ cpc'[c] = "returned"
        /\ (cpc[c] = "spawn" /\ cpc'[c] # "spawn") =>
              /\ cpc'[c] = "returned"
              /\ lock # Caller(c)
              /\ NumThreads' = NumThreads + 1
              /\ NumAt({"lock"})' = NumAt({"lock"}) + 1
              /\ num_running_threads' = num_running_threads
              /\ tasks' = tasks
        /\ cpc[c] = "returned" => cpc'[c] = "returned"]_vars

\* With one slot, the first call has taken it and is about to spawn; the
\* second call has enqueued its task and returned without spawning.
C16_Witness ==
    /\ pool_size = 1
    /\ cpc[1] = "spawn"
    /\ cpc[2] = "returned"
    /\ tasks = <<1, 2>>
    /\ num_running_threads = 1
    /\ workers = EmptyBag

\* ---- C17 ----

\* C17: the PanicCatcher of a task that panicked spawns exactly one worker
\* and changes neither the counter nor the queue; a task that returns
\* normally spawns none; workers are spawned by nothing but a catcher of a
\* panicked task or an execute call that took a slot.
C17_GuardRespawn ==
    [][/\ NumAt({"unwind"})' < NumAt({"unwind"}) =>
            /\ NumThreads' = NumThreads + 1
            /\ NumAt({"lock"})' = NumAt({"lock"}) + 1
            /\ NumAt({"exiting"})' = NumAt({"exiting"}) + 1
            /\ num_running_threads' = num_running_threads
            /\ tasks' = tasks
       /\ counter' # counter =>
            /\ NumThreads' = NumThreads
            /\ num_running_threads' = num_running_threads
            /\ tasks' = tasks
       /\ NumThreads' > NumThreads =>
            \/ NumAt({"unwind"})' = NumAt({"unwind"}) - 1
            \/ NumCalls({"spawn"})' = NumCalls({"spawn"}) - 1]_vars

\* The only slot: the thread whose task panicked is still ending, its
\* replacement waits for the lock, the counter is still 1.
C17_Witness ==
    /\ pool_size = 1
    /\ num_running_threads = 1
    /\ NumAt({"lock"}) = 1
    /\ \E w \in Workers : w.pc = "exiting" /\ w.is_working
    /\ tasks # <<>>

\* ---- C18 ----

\* Worker leases that have not yet observed an empty queue: the spawns that
\* execute has decided and not yet started, and the workers in the loop; a
\* panicked worker counts until its catcher has spawned the replacement.
Leases == NumCalls({"spawn"}) + NumAt({"lock", "pop", "arm", "running", "unwind"})

\* C18: whenever the lock is not held, num_running_threads equals the number
\* of worker leases that have not yet observed an empty queue.
C18_CounterIsLeases == lock = NoThread => num_running_threads = Leases

\* Two leases: a spawn that execute decided but has not started, and the
\* replacement of a worker whose task panicked and who is still ending.
C18_Witness ==
    /\ lock = NoThread
    /\ num_running_threads = 2
    /\ NumCalls({"spawn"}) = 1
    /\ NumAt({"lock"}) = 1
    /\ \E w \in Workers : w.pc = "exiting" /\ w.is_working

\* ---- C19 ----

\* C19: no pending task is stranded: whenever the lock is not held and the
\* queue is non-empty, the counter is positive and a further claim is on its
\* way (a decided spawn, a worker in the loop, or a catcher about to
\* respawn); the counter is decremented only by a worker that holds the
\* lock and has found the queue empty.
C19_NoStrandedTask ==
    /\ []((lock = NoThread /\ tasks # <<>>) =>
            /\ num_running_threads > 0
            /\ NumCalls({"spawn"}) + NumAt({"lock", "arm", "running", "unwind"}) > 0)
    /\ [][num_running_threads' < num_running_threads =>
            /\ tasks = <<>> /\ tasks' = <<>>
            /\ lock = AWorker
            /\ NumAt({"exiting"})' = NumAt({"exiting"}) + 1]_vars

\* A task waits in the queue and the only thing that will claim it is the
\* replacement that the catcher of the panicked worker is about to spawn.
C19_Witness ==
    /\ lock = NoThread
    /\ tasks # <<>>
    /\ NumCalls({"spawn"}) = 0
    /\ NumAt({"unwind"}) = 1
    /\ NumAt({"lock", "pop", "arm", "running"}) = 0

\* C10: when every caller has returned from execute (all tasks were handed
\* over, none panics), the counter equals the number of tasks.
C10_CounterAtJoin ==
    (panics = {} /\ nextTask > MaxTasks /\ NoCallerInExecute) => counter = MaxTasks

====
